---- MODULE Spec2Model ----
(***************************************************************************)
(* Model of oxipng's deflate layer (src/deflate/mod.rs): the Deflaters     *)
(* dispatcher with its post-check against the shared AtomicMin size        *)
(* budget, and BufferedZopfliDeflater::deflate, which builds a zlib        *)
(* envelope (header, streamed DEFLATE payload, Adler-32 trailer) by hand.  *)
(***************************************************************************)
EXTENDS Integers, Sequences, FiniteSets, TLC

(* ------------------------------ bounds -------------------------------- *)
\* number of workers that call AtomicMin's lowering operation concurrently
NumLowerers == 2
\* the candidates offered to the budget are MinBudget..MaxBudget
MinBudget == 7
MaxBudget == 8
\* longest input handed to a deflate call
MaxLen == 2
\* largest capacity of the BufWriter in front of the DeflateEncoder
MaxBufSize == 2

(* ------------------------------ values -------------------------------- *)
\* Option<usize>
None == [some |-> FALSE, val |-> 0]
Some(v) == [some |-> TRUE, val |-> v]

Lowerers == 1..NumLowerers
Budgets == MinBudget..MaxBudget
\* sample byte values of the inputs
DataBytes == {0, 255}
Data == UNION {[1..n -> DataBytes] : n \in 0..MaxLen}

\* u8 values sampled for Deflaters::Libdeflater.compression (the field is a
\* plain u8) and NonZeroU8 values sampled for Deflaters::Zopfli.iterations
LevelSamples == {0, 6, 13}
IterationSamples == {1, 255}
Libdeflater(c) == [kind |-> "Libdeflater", n |-> c, buffer_size |-> 0]
Zopfli(i) == [kind |-> "Zopfli", n |-> i, buffer_size |-> 0]
Buffered(i, cap) == [kind |-> "Buffered", n |-> i, buffer_size |-> cap]
NoSelf == [kind |-> "none", n |-> 0, buffer_size |-> 0]

\* PngResult<Vec<u8>>, with the return statement it came from
NoRet == [kind |-> "none", bytes |-> <<>>, n |-> 0, msg |-> "", site |-> "none"]
Ok(b, s) == [kind |-> "Ok", bytes |-> b, n |-> 0, msg |-> "", site |-> s]
DeflatedDataTooLong(k, s) ==
    [kind |-> "DeflatedDataTooLong", bytes |-> <<>>, n |-> k, msg |-> "", site |-> s]
Other(m, s) == [kind |-> "Other", bytes |-> <<>>, n |-> 0, msg |-> m, site |-> s]

VARIABLES
    max_size,     \* the shared AtomicMin: None, or Some(smallest size so far)
    lpc,          \* per lowering worker: "idle", "load" or "cas"
    lcand,        \* per lowering worker: the candidate of its current call
    lseen,        \* per lowering worker: the value its last load returned
    offered,      \* history: candidates of all lowering calls begun
    completed,    \* history: candidates of all lowering calls returned
    pc,           \* position of the worker that calls deflate
    self,         \* the Deflaters or BufferedZopfliDeflater value called
    data,         \* the input of the call
    at_call,      \* history: the budget when the call began
    compressed,   \* Deflaters::deflate: the backend's candidate
    max,          \* the value the call's max_size.get() returned
    ret,          \* the call's return value
    cmfflg,       \* BufferedZopfliDeflater::deflate: the header word (u16)
    out,          \* ... the bytes in the output Cursor
    in_pos,       \* ... how much of data in_data has handed out
    rolling_adler,\* ... the Adler32 hasher in_data feeds
    buffer,       \* ... the bytes held in the BufWriter
    enc_in,       \* ... the bytes the DeflateEncoder has been given
    enc_done,     \* ... whether the DeflateEncoder has been finished
    closure       \* ... what the io::Result closure returned

lvars == <<lpc, lcand, lseen, offered, completed>>
svars == <<cmfflg, out, in_pos, rolling_adler, buffer, enc_in, enc_done, closure>>
dvars == <<pc, self, data, at_call, compressed, max, ret, svars>>
vars == <<max_size, lvars, dvars>>

(* ---------------------------- AtomicMin ------------------------------- *)
\* AtomicMin::get
AtomicMinGet == max_size

\* whether a candidate replaces the stored value: nothing stored yet, or
\* strictly smaller than what is stored
Lowers(cand, stored) == ~stored.some \/ cand < stored.val

\* a worker begins a lowering call with candidate v
TryLowerBegin(w, v) ==
    /\ lpc[w] = "idle"
    /\ lpc' = [lpc EXCEPT ![w] = "load"]
    /\ lcand' = [lcand EXCEPT ![w] = v]
    /\ offered' = offered \cup {v}
    /\ UNCHANGED <<max_size, lseen, completed, dvars>>

\* the load of the compare-and-swap loop; a candidate that does not lower
\* the stored value ends the call
TryLowerLoad(w) ==
    /\ lpc[w] = "load"
    /\ lseen' = [lseen EXCEPT ![w] = max_size]
    /\ IF Lowers(lcand[w], max_size)
       THEN /\ lpc' = [lpc EXCEPT ![w] = "cas"]
            /\ UNCHANGED completed
       ELSE /\ lpc' = [lpc EXCEPT ![w] = "idle"]
            /\ completed' = completed \cup {lcand[w]}
    /\ UNCHANGED <<max_size, lcand, offered, dvars>>

\* a store that does not compare: the candidate overwrites whatever a
\* concurrent call stored since the load
TryLowerCasBlindStore(w) ==
    /\ lpc[w] = "cas"
    /\ max_size' = Some(lcand[w])
    /\ lpc' = [lpc EXCEPT ![w] = "idle"]
    /\ completed' = completed \cup {lcand[w]}
    /\ UNCHANGED <<lcand, lseen, offered, dvars>>

\* the compare-and-swap: stores the candidate if the word still holds what
\* the load saw, and retries the load otherwise
TryLowerCas(w) ==
    /\ lpc[w] = "cas"
    /\ IF max_size = lseen[w]
       THEN /\ max_size' = Some(lcand[w])
            /\ lpc' = [lpc EXCEPT ![w] = "idle"]
            /\ completed' = completed \cup {lcand[w]}
       ELSE /\ lpc' = [lpc EXCEPT ![w] = "load"]
            /\ UNCHANGED <<max_size, completed>>
    /\ UNCHANGED <<lcand, lseen, offered, dvars>>

(* ------------------------ Deflaters::deflate --------------------------- *)
\* what the backends hand back: byte vectors around the budget's sizes
OutLens == (MinBudget - 1)..(MaxBudget + 1)
OutSeeds == {0, 119}
BackendOutputs == {[i \in 1..n |-> (s + i) % 256] : n \in OutLens, s \in OutSeeds}
BackendFailures == {"libdeflater: compression failed", "zopfli: write failed"}

\* a caller invokes Deflaters::deflate(data, max_size) on a Deflaters value
DeflatersDeflate(cfg, d) ==
    /\ pc = "idle"
    /\ pc' = "backend"
    /\ self' = cfg
    /\ data' = d
    /\ at_call' = max_size
    /\ UNCHANGED <<max_size, lvars, compressed, max, ret, svars>>

\* what deflate(data, level, max_size) of the libdeflater backend may
\* return: a candidate, an encoder failure, or its own over-budget error
\* when a budget is set
LibdeflaterOutcomes ==
    {Ok(c, "backend") : c \in BackendOutputs}
    \cup {Other(e, "backend") : e \in BackendFailures}
    \cup (IF max_size.some
          THEN {DeflatedDataTooLong(max_size.val, "backend")} ELSE {})

\* what zopfli_deflate(data, iterations) may return; it is not given the
\* budget
ZopfliOutcomes ==
    {Ok(c, "backend") : c \in BackendOutputs}
    \cup {Other(e, "backend") : e \in BackendFailures}

\* the Libdeflater arm: deflate(data, *compression, max_size)?
LibdeflaterArm ==
    /\ pc = "backend"
    /\ self.kind = "Libdeflater"
    /\ \E r \in LibdeflaterOutcomes :
          IF r.kind = "Ok"
          THEN /\ compressed' = r.bytes
               /\ pc' = "postcheck"
               /\ UNCHANGED ret
          ELSE /\ ret' = r
               /\ pc' = "done"
               /\ UNCHANGED compressed
    /\ UNCHANGED <<max_size, lvars, self, data, at_call, max, svars>>

\* the Zopfli arm: zopfli_deflate(data, *iterations)?
ZopfliArm ==
    /\ pc = "backend"
    /\ self.kind = "Zopfli"
    /\ \E r \in ZopfliOutcomes :
          IF r.kind = "Ok"
          THEN /\ compressed' = r.bytes
               /\ pc' = "postcheck"
               /\ UNCHANGED ret
          ELSE /\ ret' = r
               /\ pc' = "done"
               /\ UNCHANGED compressed
    /\ UNCHANGED <<max_size, lvars, self, data, at_call, max, svars>>

\* a post-check that also turns away a candidate exactly as long as the budget
PostCheckRejectsEqual ==
    /\ pc = "postcheck"
    /\ max' = AtomicMinGet
    /\ ret' = IF max'.some /\ Len(compressed) >= max'.val
              THEN DeflatedDataTooLong(max'.val, "postcheck")
              ELSE Ok(compressed, "postcheck")
    /\ pc' = "done"
    /\ UNCHANGED <<max_size, lvars, self, data, at_call, compressed, svars>>

\* a post-check whose error carries the candidate's length
PostCheckCarriesLength ==
    /\ pc = "postcheck"
    /\ max' = AtomicMinGet
    /\ ret' = IF max'.some /\ Len(compressed) > max'.val
              THEN DeflatedDataTooLong(Len(compressed), "postcheck")
              ELSE Ok(compressed, "postcheck")
    /\ pc' = "done"
    /\ UNCHANGED <<max_size, lvars, self, data, at_call, compressed, svars>>

\* a post-check against the budget as it was when the call began
PostCheckUsesBudgetAtCall ==
    /\ pc = "postcheck"
    /\ max' = at_call
    /\ ret' = IF max'.some /\ Len(compressed) > max'.val
              THEN DeflatedDataTooLong(max'.val, "postcheck")
              ELSE Ok(compressed, "postcheck")
    /\ pc' = "done"
    /\ UNCHANGED <<max_size, lvars, self, data, at_call, compressed, svars>>

\* a post-check that records an accepted candidate's length in the budget
PostCheckRecordsResult ==
    /\ pc = "postcheck"
    /\ max' = AtomicMinGet
    /\ ret' = IF max'.some /\ Len(compressed) > max'.val
              THEN DeflatedDataTooLong(max'.val, "postcheck")
              ELSE Ok(compressed, "postcheck")
    /\ max_size' = IF ret'.kind = "Ok" THEN Some(Len(compressed)) ELSE max_size
    /\ pc' = "done"
    /\ UNCHANGED <<lvars, self, data, at_call, compressed, svars>>

\* the post-check: one max_size.get(), the comparison, and the return
DeflatersPostCheck ==
    /\ pc = "postcheck"
    /\ max' = AtomicMinGet
    /\ ret' = IF max'.some /\ Len(compressed) > max'.val
              THEN DeflatedDataTooLong(max'.val, "postcheck")
              ELSE Ok(compressed, "postcheck")
    /\ pc' = "done"
    /\ UNCHANGED <<max_size, lvars, self, data, at_call, compressed, svars>>

(* ------------------- BufferedZopfliDeflater::deflate ------------------- *)
\* the zlib header word
CMF == 120
FLEVEL == 3
FDICT == 0
CmfflgInit == 256 * CMF + FDICT * 32 + FLEVEL * 64
\* the remainder itself, not its complement to 31
FcheckRemainder == CmfflgInit % 31
Fcheck == 31 - (CmfflgInit % 31)
\* cmfflg += fcheck, in u16
Cmfflg == (CmfflgInit + Fcheck) % 65536

\* u16::to_be_bytes and u32::to_be_bytes
ToBeBytes16(x) == <<x \div 256, x % 256>>
ToBeBytes32(x) ==
    <<x \div 16777216, (x \div 65536) % 256, (x \div 256) % 256, x % 256>>

\* simd_adler32::Adler32: new, write and finish
AdlerNew == [a |-> 1, b |-> 0]
RECURSIVE AdlerWrite(_, _)
AdlerWrite(h, bytes) ==
    IF bytes = <<>> THEN h
    ELSE LET a1 == (h.a + Head(bytes)) % 65521
         IN AdlerWrite([a |-> a1, b |-> (h.b + a1) % 65521], Tail(bytes))
AdlerFinish(h) == h.b * 65536 + h.a

\* what one write to the DeflateEncoder may append to the output: the
\* encoder emits compressed bytes when it closes a block
EncBytes == {75, 202}
Emissions == {<<>>} \cup {<<b>> : b \in EncBytes}
\* what DeflateEncoder::finish appends: the last block is never empty
FinalEmissions == {<<b>> : b \in EncBytes}
\* io::Error values, and io::Error's to_string
IoFailures ==
    { [kind |-> "WriteZero", desc |-> "failed to write whole buffer"],
      [kind |-> "OutOfMemory", desc |-> "out of memory"] }
ErrorToString(e) == e.desc
\* io::Result<Vec<u8>> of the closure; the Vec is out
NoError == [kind |-> "none", desc |-> ""]
NoClosure == [kind |-> "none", err |-> NoError]
ClosureOk == [kind |-> "Ok", err |-> NoError]
ClosureErr(e) == [kind |-> "Err", err |-> e]

BufferSizes == 1..MaxBufSize

\* a caller invokes BufferedZopfliDeflater::deflate(data, max_size): the
\* options, the output Cursor and the header word
BufferedDeflate(cfg, d) ==
    /\ pc = "idle"
    /\ pc' = "header"
    /\ self' = cfg
    /\ data' = d
    /\ at_call' = max_size
    /\ out' = <<>>
    /\ cmfflg' = Cmfflg
    /\ UNCHANGED <<max_size, lvars, compressed, max, ret>>
    /\ UNCHANGED <<in_pos, rolling_adler, buffer, enc_in, enc_done, closure>>

\* the closure begins: the hasher, the reading adapter over data, the
\* header bytes, and the BufWriter around the DeflateEncoder
WriteHeader ==
    /\ pc = "header"
    /\ rolling_adler' = AdlerNew
    /\ in_pos' = 0
    /\ out' = out \o ToBeBytes16(cmfflg)
    /\ buffer' = <<>>
    /\ enc_in' = <<>>
    /\ pc' = "copy"
    /\ UNCHANGED <<max_size, lvars, self, data, at_call, compressed, max, ret>>
    /\ UNCHANGED <<cmfflg, enc_done, closure>>

\* HashingAndCountingRead::read hands out the next n bytes of data and
\* feeds them to the hasher
ReadChunk(n) == SubSeq(data, in_pos + 1, in_pos + n)

\* BufWriter::write_all(chunk): what goes on to the encoder and what stays
\* in the buffer
BufWriterPassed(chunk) ==
    LET spare == self.buffer_size - Len(buffer)
        flushed == IF Len(chunk) >= spare /\ Len(chunk) > spare
                   THEN buffer ELSE <<>>
        direct == IF Len(chunk) >= spare /\ Len(chunk) >= self.buffer_size
                  THEN chunk ELSE <<>>
    IN flushed \o direct
BufWriterKept(chunk) ==
    LET spare == self.buffer_size - Len(buffer)
        kept == IF Len(chunk) >= spare /\ Len(chunk) > spare
                THEN <<>> ELSE buffer
    IN IF Len(chunk) >= spare /\ Len(chunk) >= self.buffer_size
       THEN kept ELSE kept \o chunk

\* one round of io::copy(&mut in_data, &mut buffer): a read of n bytes and
\* the write of them
CopyChunk(n) ==
    /\ pc = "copy"
    /\ n \in 1..(Len(data) - in_pos)
    /\ LET chunk == ReadChunk(n)
           passed == BufWriterPassed(chunk)
       IN /\ in_pos' = in_pos + n
          /\ rolling_adler' = AdlerWrite(rolling_adler, chunk)
          /\ buffer' = BufWriterKept(chunk)
          /\ enc_in' = enc_in \o passed
          /\ \E e \in Emissions :
                /\ passed = <<>> => e = <<>>
                /\ out' = out \o e
    /\ UNCHANGED <<max_size, lvars, self, data, at_call, compressed, max, ret>>
    /\ UNCHANGED <<pc, cmfflg, enc_done, closure>>

\* the read that returns 0 ends io::copy
CopyEnd ==
    /\ pc = "copy"
    /\ in_pos = Len(data)
    /\ pc' = "finish"
    /\ UNCHANGED <<max_size, lvars, self, data, at_call, compressed, max, ret>>
    /\ UNCHANGED svars

\* buffer.into_inner()?.finish()?: the BufWriter hands what it holds to the
\* encoder, and the encoder writes its last block
FinishEncoder ==
    /\ pc = "finish"
    /\ enc_in' = enc_in \o buffer
    /\ buffer' = <<>>
    /\ enc_done' = TRUE
    /\ \E e \in FinalEmissions : out' = out \o e
    /\ pc' = "trailer"
    /\ UNCHANGED <<max_size, lvars, self, data, at_call, compressed, max, ret>>
    /\ UNCHANGED <<cmfflg, in_pos, rolling_adler, closure>>

\* u32::to_le_bytes
ToLeBytes32(x) ==
    <<x % 256, (x \div 256) % 256, (x \div 65536) % 256, x \div 16777216>>
\* a trailer written least significant byte first
WriteTrailerLittleEndian ==
    /\ pc = "trailer"
    /\ out' = out \o ToLeBytes32(AdlerFinish(rolling_adler))
    /\ closure' = ClosureOk
    /\ pc' = "map_err"
    /\ UNCHANGED <<max_size, lvars, self, data, at_call, compressed, max, ret>>
    /\ UNCHANGED <<cmfflg, in_pos, rolling_adler, buffer, enc_in, enc_done>>

\* out.write_all(&rolling_adler.finish().to_be_bytes())?; Ok(out.into_inner())
WriteTrailer ==
    /\ pc = "trailer"
    /\ out' = out \o ToBeBytes32(AdlerFinish(rolling_adler))
    /\ closure' = ClosureOk
    /\ pc' = "map_err"
    /\ UNCHANGED <<max_size, lvars, self, data, at_call, compressed, max, ret>>
    /\ UNCHANGED <<cmfflg, in_pos, rolling_adler, buffer, enc_in, enc_done>>

\* a write, the copy, the flush or the finish fails: the ? in the closure
\* returns the io::Error
IoFailure(e) ==
    /\ pc \in {"header", "copy", "finish", "trailer"}
    /\ closure' = ClosureErr(e)
    /\ pc' = "map_err"
    /\ UNCHANGED <<max_size, lvars, self, data, at_call, compressed, max, ret>>
    /\ UNCHANGED <<cmfflg, out, in_pos, rolling_adler, buffer, enc_in, enc_done>>

\* a map_err that hands back what was written so far instead of the error
MapErrKeepsPartialOutput ==
    /\ pc = "map_err"
    /\ IF closure.kind = "Err"
       THEN /\ ret' = Ok(out, "map_err")
            /\ pc' = "done"
       ELSE /\ pc' = "check"
            /\ UNCHANGED ret
    /\ UNCHANGED <<max_size, lvars, self, data, at_call, compressed, max>>
    /\ UNCHANGED svars

\* out.map_err(|e| PngError::new(&e.to_string()))?
MapErr ==
    /\ pc = "map_err"
    /\ IF closure.kind = "Err"
       THEN /\ ret' = Other(ErrorToString(closure.err), "map_err")
            /\ pc' = "done"
       ELSE /\ pc' = "check"
            /\ UNCHANGED ret
    /\ UNCHANGED <<max_size, lvars, self, data, at_call, compressed, max>>
    /\ UNCHANGED svars

\* a budget check whose error carries the budget, as the dispatcher's does
BudgetCheckCarriesBudget ==
    /\ pc = "check"
    /\ max' = AtomicMinGet
    /\ ret' = IF max'.some /\ max'.val < Len(out)
              THEN DeflatedDataTooLong(max'.val, "check")
              ELSE Ok(out, "check")
    /\ pc' = "done"
    /\ UNCHANGED <<max_size, lvars, self, data, at_call, compressed>>
    /\ UNCHANGED svars

\* the budget check on the finished envelope
BudgetCheck ==
    /\ pc = "check"
    /\ max' = AtomicMinGet
    /\ ret' = IF max'.some /\ max'.val < Len(out)
              THEN DeflatedDataTooLong(Len(out), "check")
              ELSE Ok(out, "check")
    /\ pc' = "done"
    /\ UNCHANGED <<max_size, lvars, self, data, at_call, compressed>>
    /\ UNCHANGED svars

\* the caller takes the result; the worker is free for its next call
Return ==
    /\ pc = "done"
    /\ pc' = "idle"
    /\ self' = NoSelf
    /\ data' = <<>>
    /\ at_call' = None
    /\ compressed' = <<>>
    /\ max' = None
    /\ ret' = NoRet
    /\ cmfflg' = 0
    /\ out' = <<>>
    /\ in_pos' = 0
    /\ rolling_adler' = AdlerNew
    /\ buffer' = <<>>
    /\ enc_in' = <<>>
    /\ enc_done' = FALSE
    /\ closure' = NoClosure
    /\ UNCHANGED <<max_size, lvars>>

Init ==
    /\ max_size = None
    /\ lpc = [w \in Lowerers |-> "idle"]
    /\ lcand = [w \in Lowerers |-> MinBudget]
    /\ lseen = [w \in Lowerers |-> None]
    /\ offered = {}
    /\ completed = {}
    /\ pc = "idle"
    /\ self = NoSelf
    /\ data = <<>>
    /\ at_call = None
    /\ compressed = <<>>
    /\ max = None
    /\ ret = NoRet
    /\ cmfflg = 0
    /\ out = <<>>
    /\ in_pos = 0
    /\ rolling_adler = AdlerNew
    /\ buffer = <<>>
    /\ enc_in = <<>>
    /\ enc_done = FALSE
    /\ closure = NoClosure

NextAtomicMin ==
    \/ \E w \in Lowerers, v \in Budgets : TryLowerBegin(w, v)
    \/ \E w \in Lowerers : TryLowerLoad(w)
    \/ \E w \in Lowerers : TryLowerCas(w)

SpecAtomicMin == Init /\ [][NextAtomicMin]_vars

\* one worker calling deflate while another lowers the budget
Next ==
    \/ \E v \in Budgets : TryLowerBegin(1, v)
    \/ TryLowerLoad(1)
    \/ TryLowerCas(1)
    \/ \E c \in LevelSamples, d \in Data : DeflatersDeflate(Libdeflater(c), d)
    \/ \E i \in IterationSamples, d \in Data : DeflatersDeflate(Zopfli(i), d)
    \/ LibdeflaterArm
    \/ ZopfliArm
    \/ DeflatersPostCheck
    \/ \E i \in IterationSamples, cap \in BufferSizes, d \in Data :
            BufferedDeflate(Buffered(i, cap), d)
    \/ WriteHeader
    \/ \E n \in 1..MaxLen : CopyChunk(n)
    \/ CopyEnd
    \/ FinishEncoder
    \/ WriteTrailer
    \/ \E e \in IoFailures : IoFailure(e)
    \/ MapErr
    \/ BudgetCheck
    \/ Return

Spec == Init /\ [][Next]_vars

(* ------------------------------ claims -------------------------------- *)
IsDeflaters == self.kind \in {"Libdeflater", "Zopfli"}
IsBuffered == self.kind = "Buffered"
FromBe16(b) == b[1] * 256 + b[2]
FromBe32(b) == ((b[1] * 256 + b[2]) * 256 + b[3]) * 256 + b[4]
LastFour(b) == SubSeq(b, Len(b) - 3, Len(b))

\* Adler-32 of a byte string as RFC 1950 defines it: A is one plus the sum
\* of the bytes, B the sum of the values A takes, both modulo 65521
RECURSIVE ByteSum(_)
ByteSum(d) == IF d = <<>> THEN 0 ELSE Head(d) + ByteSum(Tail(d))
RECURSIVE WeightedSum(_)
WeightedSum(d) == IF d = <<>> THEN 0 ELSE Len(d) * Head(d) + WeightedSum(Tail(d))
Adler32(d) ==
    ((Len(d) + WeightedSum(d)) % 65521) * 65536 + ((1 + ByteSum(d)) % 65521)

\* C1: Deflaters::deflate returns Ok only from its post-check, and then exactly
\* the backend's candidate, whose length is at most the budget the post-check
\* read (equal is accepted); a candidate longer than that budget yields the
\* over-budget error; with no budget set the candidate comes back unchanged.
BudgetEnforcement ==
    (pc = "done" /\ IsDeflaters) =>
        /\ ret.kind = "Ok" =>
              /\ ret.site = "postcheck"
              /\ ret.bytes = compressed
              /\ max.some => Len(ret.bytes) <= max.val
        /\ ret.site = "postcheck" =>
              /\ (max.some /\ Len(compressed) > max.val) =>
                    ret.kind = "DeflatedDataTooLong"
              /\ (max.some /\ Len(compressed) <= max.val) =>
                    ret = Ok(compressed, "postcheck")
              /\ ~max.some => ret = Ok(compressed, "postcheck")
\* a candidate exactly as long as the budget has been accepted
BudgetEnforcementWitness ==
    /\ pc = "done" /\ IsDeflaters
    /\ ret.kind = "Ok" /\ max.some /\ Len(ret.bytes) = max.val

\* C2: an error returned by the post-check of Deflaters::deflate is
\* DeflatedDataTooLong with the budget the candidate was compared against,
\* not the candidate's length, for the Libdeflater and the Zopfli variant.
PostCheckErrorCarriesBudget ==
    (pc = "done" /\ IsDeflaters /\ ret.site = "postcheck" /\ ret.kind # "Ok") =>
        /\ ret.kind = "DeflatedDataTooLong"
        /\ max.some
        /\ ret.n = max.val
        /\ ret.n < Len(compressed)
\* the Zopfli variant's candidate has been turned away
PostCheckErrorWitness ==
    /\ pc = "done" /\ self.kind = "Zopfli" /\ ret.site = "postcheck"
    /\ ret.kind = "DeflatedDataTooLong" /\ ret.n = max.val

\* the envelope is whole: all of data read, hashed and given to the encoder,
\* nothing left in the BufWriter, the encoder finished, the trailer written
EnvelopeComplete ==
    /\ in_pos = Len(data)
    /\ enc_in = data
    /\ buffer = <<>>
    /\ enc_done
    /\ closure = ClosureOk

\* C3: BufferedZopfliDeflater::deflate reads the budget only once the envelope
\* is whole; a budget below the final length yields DeflatedDataTooLong with
\* the final length, and otherwise (unset, or at least the length) the whole
\* output is returned; no step before that reads the budget or ends the call
\* with the over-budget error.
BudgetCheckedAfterEnvelope ==
    IsBuffered =>
        /\ pc \in {"header", "copy", "finish", "trailer", "map_err", "check"} =>
              max = None /\ ret = NoRet
        /\ (pc = "done" /\ ret.site = "check") =>
              /\ EnvelopeComplete
              /\ IF max.some /\ max.val < Len(out)
                 THEN ret = DeflatedDataTooLong(Len(out), "check")
                 ELSE ret = Ok(out, "check")
        /\ (pc = "done" /\ ret.kind \in {"Ok", "DeflatedDataTooLong"}) =>
              ret.site = "check"
\* a finished envelope longer than the budget has been turned away
BudgetCheckedAfterEnvelopeWitness ==
    /\ pc = "done" /\ IsBuffered
    /\ ret.kind = "DeflatedDataTooLong" /\ ret.n = Len(out) /\ max.val < ret.n

SetMin(S) == CHOOSE m \in S : \A x \in S : m <= x

\* the lowering calls that have begun and not yet returned
InFlight == {w \in Lowerers : lpc[w] # "idle"}

\* C4: under any interleaving of lowering calls the stored value never grows
\* and never returns to unset; it is never above the least candidate of the
\* calls that have returned; once every call has returned it is the least
\* candidate offered; and it is unset exactly while no call has stored.
AtomicMinKeepsMinimum ==
    /\ [](/\ completed # {} =>
              max_size.some /\ max_size.val <= SetMin(completed)
          /\ (InFlight = {} /\ offered # {}) =>
              AtomicMinGet = Some(SetMin(offered))
          /\ max_size.some => max_size.val \in offered
          /\ ~max_size.some => completed = {})
    /\ [][max_size.some =>
              max_size'.some /\ max_size'.val <= max_size.val]_vars
\* two calls with different candidates have returned, the one with the larger
\* candidate having found the smaller one stored
AtomicMinWitness ==
    /\ InFlight = {}
    /\ Cardinality(offered) >= 2
    /\ max_size = Some(SetMin(offered))
    /\ \E w \in Lowerers : lcand[w] > max_size.val /\ lseen[w] = max_size

\* C5: a successful output of BufferedZopfliDeflater::deflate begins with two
\* bytes that, read big-endian, are a multiple of 31: the first is CMF = 120,
\* the second holds FLEVEL = 3, FDICT = 0 and FCHECK = 31 - (CMFFLG mod 31)
\* with CMFFLG = 256*120 + 32*0 + 64*3, and the sum needs no more than 16 bits.
HeaderValidity ==
    (pc = "done" /\ IsBuffered /\ ret.kind = "Ok") =>
        LET hdr == SubSeq(ret.bytes, 1, 2) IN
        /\ FromBe16(hdr) % 31 = 0
        /\ hdr[1] = 120
        /\ hdr[2] \div 64 = 3
        /\ (hdr[2] \div 32) % 2 = 0
        /\ hdr[2] % 32 = 31 - ((256 * 120 + 32 * 0 + 64 * 3) % 31)
        /\ CmfflgInit + Fcheck < 65536
        /\ FromBe16(hdr) = CmfflgInit + Fcheck
\* a successful output that begins 0x78 0xDA
HeaderValidityWitness ==
    /\ pc = "done" /\ IsBuffered /\ ret.kind = "Ok"
    /\ SubSeq(ret.bytes, 1, 2) = <<120, 218>>

\* C6: a successful output of BufferedZopfliDeflater::deflate is the two
\* header bytes, then the encoder's payload for the whole input, then four
\* bytes that, read big-endian, are the Adler-32 of the input (the empty input
\* included); the trailer is written only after all input has been read and
\* given to the encoder and the encoder has been finished.
TrailerCorrectness ==
    IsBuffered =>
        /\ (pc = "done" /\ ret.kind = "Ok") =>
              /\ Len(ret.bytes) >= 2 + 1 + 4
              /\ SubSeq(ret.bytes, 1, 2) = ToBeBytes16(cmfflg)
              /\ \A i \in 3..(Len(ret.bytes) - 4) : ret.bytes[i] \in EncBytes
              /\ FromBe32(LastFour(ret.bytes)) = Adler32(data)
              /\ enc_in = data
        /\ pc = "trailer" =>
              in_pos = Len(data) /\ enc_in = data /\ buffer = <<>> /\ enc_done
        /\ pc \in {"header", "copy", "finish"} => ~enc_done /\ closure = NoClosure
\* a successful output for an input of two different bytes
TrailerCorrectnessWitness ==
    /\ pc = "done" /\ IsBuffered /\ ret.kind = "Ok"
    /\ Len(data) >= 2 /\ data[1] # data[2]
    /\ FromBe32(LastFour(ret.bytes)) = Adler32(data)

\* C7: when a step of the closure fails, BufferedZopfliDeflater::deflate
\* returns an error whose message is the description of that failure, returns
\* none of the bytes written so far, and does not reach the budget check.
FailureAtomicity ==
    (pc = "done" /\ IsBuffered /\ closure.kind = "Err") =>
        /\ ret.kind = "Other"
        /\ ret.msg = closure.err.desc
        /\ ret.bytes = <<>>
        /\ ret.site = "map_err"
        /\ max = None
\* a failure after the header and part of the payload were written, with a
\* budget set
FailureAtomicityWitness ==
    /\ pc = "done" /\ IsBuffered /\ closure.kind = "Err"
    /\ Len(out) > 2 /\ max_size.some
    /\ ret.kind = "Other" /\ ret.msg = "out of memory"

\* C8: every Deflaters value whose backend runs has compression in 1..12
\* (Libdeflater) or iterations in 1..255 (Zopfli).
ConfigurationValidity ==
    pc = "backend" =>
        /\ self.kind = "Libdeflater" => self.n \in 1..12
        /\ self.kind = "Zopfli" => self.n \in 1..255

\* C9: no step of Deflaters::deflate's own code or of
\* BufferedZopfliDeflater::deflate changes the budget.
DeflateLeavesBudget == [][dvars' # dvars => max_size' = max_size]_vars
\* a call has succeeded with fewer bytes than the budget, and the budget is
\* still what the call read
DeflateLeavesBudgetWitness ==
    /\ pc = "done" /\ ret.kind = "Ok"
    /\ max_size.some /\ max_size = max /\ Len(ret.bytes) < max_size.val

\* C10: the result of Deflaters::deflate's post-check is decided by the budget
\* as it is at the post-check, whatever it was when the call began, and a
\* budget lowered after the post-check does not change the result.
PostCheckReadsBudgetOnce ==
    [][/\ (pc = "postcheck" /\ pc' = "done") =>
              /\ max' = max_size
              /\ ret' = IF max_size.some /\ Len(compressed) > max_size.val
                        THEN DeflatedDataTooLong(max_size.val, "postcheck")
                        ELSE Ok(compressed, "postcheck")
       /\ (pc = "done" /\ pc' = "done") => ret' = ret /\ max' = max]_vars
\* a candidate that fitted the budget of the call's beginning (or there was
\* none) has been turned away for a budget lowered while the backend ran, and
\* the budget has been lowered again since
PostCheckReadsBudgetOnceWitness ==
    /\ pc = "done" /\ IsDeflaters /\ ret.site = "postcheck"
    /\ ret.kind = "DeflatedDataTooLong"
    /\ ~at_call.some \/ Len(compressed) <= at_call.val
    /\ max_size.some /\ max_size.val < ret.n
====
